---- MODULE Spec2Model ----
(***************************************************************************)
(* A model of the tardcore_trader portfolio utility: the signed brokerage  *)
(* client (robinhood/client.py), the quote-vendor lookups                  *)
(* (utils/coinmarketcap.py), the portfolio display (utils/pricing.py), the *)
(* daily snapshot writer (utils/logger.py) and the dilution check          *)
(* (utils/asset_analysis.py).                                              *)
(*                                                                         *)
(* Python values are modelled as follows.  A str is a TLA+ string; the     *)
(* value None of an Optional[str] is the string Null, which is no value a  *)
(* program string takes.  None of an optional number is NoneNum.  A dict   *)
(* is a record; a key that may be missing is paired with a has_<key>       *)
(* field.  An operation that may raise returns a record whose field        *)
(* "raised" names the exception class ("" when it returns normally).       *)
(***************************************************************************)
EXTENDS Integers, Sequences, FiniteSets, TLC

VARIABLES
    env,          \* the process environment (os.getenv), fixed per run
    client,       \* the CryptoAPITrading object's fields, and whether it is constructed
    lastRequest,  \* the HTTP request most recently dispatched by the client
    lastSigned,   \* the inputs of the most recent signature computation
    lastCall,     \* the most recent client operation: its name, inputs and outcome
    cmc,          \* the running / last quote-vendor lookup (coinmarketcap.py)
    clock,        \* the wall clock: an index into Calendar
    files,        \* the snapshot files: date -> document (or NoFile)
    dirs,         \* the months whose logs/<year>/<month> directory exists
    proc,         \* per invocation of write_daily_snapshot: position and locals
    display,      \* the last display_portfolio run: inputs and outcome
    dilution,     \* the last check_dillution run: input rows and outcome
    signing       \* the last two calls of generate_signature_base64: inputs and results

clientVars == <<client, lastRequest, lastSigned, lastCall>>
snapVars   == <<clock, files, dirs, proc>>
vars == <<env, client, lastRequest, lastSigned, lastCall,
          cmc, clock, files, dirs, proc, display, dilution, signing>>

----------------------------------------------------------------------------
(* Python values *)

Null    == "<None>"
NoneNum == 0 - 1

\* Python truthiness of an Optional[str]: None and "" are falsy.
Truthy(s) == s # Null /\ s # ""

\* A JSON string where a number is expected, such as "n/a": float() rejects it.
BadNum == 0 - 2

\* Python truthiness of an optional number: None and 0 are falsy.
TruthyNum(n) == n # NoneNum /\ n # 0

\* Python's `a or b`.
Or(a, b) == IF Truthy(a) THEN a ELSE b

\* str.upper() on the symbols that occur.
Upper(s) ==
    CASE s = "btc" -> "BTC"
      [] s = "eth" -> "ETH"
      [] OTHER     -> s

RECURSIVE Join(_, _)
\* sep.join(parts)
Join(parts, sep) ==
    IF Len(parts) = 0 THEN ""
    ELSE IF Len(parts) = 1 THEN Head(parts)
    ELSE Head(parts) \o sep \o Join(Tail(parts), sep)

RECURSIVE SeqsUpTo(_, _)
\* all sequences over S of length at most n
SeqsUpTo(S, n) ==
    IF n = 0 THEN {<<>>}
    ELSE LET shorter == SeqsUpTo(S, n - 1)
         IN  shorter \cup {Append(q, x) : q \in {r \in shorter : Len(r) = n - 1}, x \in S}

----------------------------------------------------------------------------
(* robinhood/client.py *)

DEFAULT_BASE_URL == "https://trading.robinhood.com"

\* Key material that occurs: a well-formed base64 32-byte seed, a string
\* that is not base64, and base64 of a seed of the wrong length.
GoodKey    == "c2VlZC1B"
BadB64Key  == "%%%"
ShortKey   == "c2hvcnQ="

\* base64.b64decode followed by SigningKey(seed): the seed, or the exception.
DecodeSeed(base64_private_key) ==
    CASE base64_private_key = GoodKey   -> [raised |-> "", seed |-> "seed-A"]
      [] base64_private_key = BadB64Key -> [raised |-> "binascii.Error", seed |-> ""]
      [] OTHER                          -> [raised |-> "ValueError", seed |-> ""]

\* the signed message with the method left out
SignedMessage_NoMethod(api_key, timestamp, path, method, body) ==
    api_key \o ToString(timestamp) \o path \o body

\* The signed message f"{api_key}{timestamp}{path}{method}{body}".
SignedMessage(api_key, timestamp, path, method, body) ==
    api_key \o ToString(timestamp) \o path \o method \o body

\* Ed25519 is deterministic: the signature is a function of seed and message,
\* rendered here as the pair itself.
Sign(k, message) ==
    IF k.raised # ""
    THEN [raised |-> k.raised, signature |-> ""]
    ELSE [raised |-> "", signature |-> "sig<" \o k.seed \o "|" \o message \o ">"]

generate_signature_base64(api_key, base64_private_key, timestamp, path, method, body) ==
    Sign(DecodeSeed(base64_private_key), SignedMessage(api_key, timestamp, path, method, body))

\* CryptoAPITrading.__init__: arguments fall back to the environment.
CryptoAPITrading_init(api_key, base64_private_key, e) ==
    [constructed        |-> TRUE,
     api_key            |-> Or(Or(api_key, e.API_KEY), e.ROBINHOOD_API_KEY),
     base64_private_key |-> Or(Or(base64_private_key, e.BASE64_PRIVATE_KEY),
                               e.ROBINHOOD_BASE64_PRIVATE_KEY),
     base_url           |-> DEFAULT_BASE_URL]

NoHeaders == [x_api_key |-> "", x_signature |-> "", x_timestamp |-> "", content_type |-> ""]

\* the headers with x-timestamp taken from a second reading of the clock
SignedHeaders_ClockReread(c, ts, s) ==
    IF s.raised # ""
    THEN [raised |-> s.raised, signed |-> FALSE, headers |-> NoHeaders]
    ELSE [raised |-> "", signed |-> TRUE,
          headers |-> [x_api_key    |-> c.api_key,
                       x_signature  |-> s.signature,
                       x_timestamp  |-> ToString(ts + 1),
                       content_type |-> "application/json; charset=utf-8"]]

\* the headers with the private key sent along in place of the signature
SignedHeaders_SendsKey(c, ts, s) ==
    IF s.raised # ""
    THEN [raised |-> s.raised, signed |-> FALSE, headers |-> NoHeaders]
    ELSE [raised |-> "", signed |-> TRUE,
          headers |-> [x_api_key    |-> c.api_key,
                       x_signature  |-> c.base64_private_key,
                       x_timestamp  |-> ToString(ts),
                       content_type |-> "application/json; charset=utf-8"]]

\* the dict _auth_headers returns, or the exception of the signer
SignedHeaders(c, ts, s) ==
    IF s.raised # ""
    THEN [raised |-> s.raised, signed |-> FALSE, headers |-> NoHeaders]
    ELSE [raised |-> "", signed |-> TRUE,
          headers |-> [x_api_key    |-> c.api_key,
                       x_signature  |-> s.signature,
                       x_timestamp  |-> ToString(ts),
                       content_type |-> "application/json; charset=utf-8"]]

\* _auth_headers with the credential check left out.
_auth_headers_NoCredCheck(c, method, path, body, ts) ==
    SignedHeaders(c, ts,
        generate_signature_base64(c.api_key, c.base64_private_key, ts, path, method, body))

\* CryptoAPITrading._auth_headers: the credential check, then the signature.
_auth_headers(c, method, path, body, ts) ==
    IF ~Truthy(c.api_key) \/ ~Truthy(c.base64_private_key)
    THEN [raised |-> "RuntimeError", signed |-> FALSE, headers |-> NoHeaders]
    ELSE SignedHeaders(c, ts,
            generate_signature_base64(c.api_key, c.base64_private_key, ts, path, method, body))

(* JSON values that cross the brokerage boundary.  A response body is a
   dict: the error envelope {type, errors} or a page {results, next}. *)
NoJson == [type |-> Null, errors |-> <<>>, has_results |-> FALSE, results |-> <<>>]

ClientError(detail) ==
    [type |-> "client_error", errors |-> <<[attr |-> Null, detail |-> detail]>>,
     has_results |-> FALSE, results |-> <<>>]

ServerError ==
    [type |-> "validation_error",
     errors |-> <<[attr |-> "symbol", detail |-> "Invalid symbol"]>>,
     has_results |-> FALSE, results |-> <<>>]

Page(rows) == [type |-> Null, errors |-> <<>>, has_results |-> TRUE, results |-> rows]

\* The request body of place_order, and "no body".
NoBody == [present |-> FALSE, client_order_id |-> "", side |-> "", type |-> "",
           symbol |-> "", order_config |-> ""]

OrderBody(client_order_id, side, order_type, symbol, order_config) ==
    [present |-> TRUE, client_order_id |-> client_order_id, side |-> side,
     type |-> order_type, symbol |-> symbol, order_config |-> order_config]

\* json.dumps of the place_order dict (key order is insertion order; the
\* order_config dict is {"asset_quantity": <str>}).
JsonDumps(b) ==
    "{\"client_order_id\": \"" \o b.client_order_id
    \o "\", \"side\": \"" \o b.side
    \o "\", \"type\": \"" \o b.type
    \o "\", \"symbol\": \"" \o b.symbol
    \o "\", \"" \o b.type \o "_order_config\": {\"asset_quantity\": \""
    \o b.order_config \o "\"}}"

OrderBodies ==
    {OrderBody(id, side, ty, sym, q) :
        id \in {"o-1", "o-2"}, side \in {"buy", "sell"}, ty \in {"market", "limit"},
        sym \in {"BTC-USD"}, q \in {"0.1", "2"}}

\* json.loads on a string json.dumps produced from a place_order dict.
JsonLoads(s) == CHOOSE b \in OrderBodies : JsonDumps(b) = s

\* What the network does with one dispatched request.
NetFailures == {"ConnectionError", "Timeout"}
NetMessage(kind) ==
    IF kind = "Timeout" THEN "Read timed out." ELSE "Connection refused"

NoRequest == [method |-> "", url |-> "", headers |-> NoHeaders, json |-> NoBody]
NoSigned  == [api_key |-> "", timestamp |-> NoneNum, path |-> "", method |-> "", body |-> ""]

\* The try block of _request with its except clause left out.
Transport_NoCatch(net) ==
    IF net.kind \in NetFailures
    THEN [raised |-> net.kind, ret |-> NoJson]
    ELSE [raised |-> "", ret |-> net.body]

\* The try block of _request once the request is dispatched: resp.json(),
\* or the client_error dict built from a requests.RequestException.
Transport(net) ==
    IF net.kind \in NetFailures
    THEN [raised |-> "", ret |-> ClientError("Request error: " \o NetMessage(net.kind))]
    ELSE [raised |-> "", ret |-> net.body]

\* _request from the headers on: the dispatch by method and its outcome.
Dispatch(method, url, body_str, h, sg, t) ==
    IF h.raised # ""
    THEN [raised |-> h.raised, ret |-> NoJson, signed |-> FALSE, signedInput |-> NoSigned,
          dispatched |-> FALSE, request |-> NoRequest]
    ELSE IF method \notin {"GET", "POST"}
    THEN [raised |-> "ValueError", ret |-> NoJson, signed |-> TRUE, signedInput |-> sg,
          dispatched |-> FALSE, request |-> NoRequest]
    ELSE [raised |-> t.raised, ret |-> t.ret, signed |-> TRUE, signedInput |-> sg,
          dispatched |-> TRUE,
          request |-> [method |-> method, url |-> url, headers |-> h.headers,
                       json |-> IF method = "POST" /\ body_str # ""
                                THEN JsonLoads(body_str) ELSE NoBody]]

\* _request signing the accounts path whatever path it dispatches
SendRequest_SignsFixedPath(c, method, path, body_str, ts, net) ==
    Dispatch(method, c.base_url \o path, body_str,
             _auth_headers(c, method, "/api/v1/crypto/trading/accounts/", body_str, ts),
             [api_key |-> c.api_key, timestamp |-> ts, path |-> "/api/v1/crypto/trading/accounts/",
              method |-> method, body |-> body_str],
             Transport(net))

\* _request once body_str is serialised
SendRequest(c, method, path, body_str, ts, net) ==
    Dispatch(method, c.base_url \o path, body_str,
             _auth_headers(c, method, path, body_str, ts),
             [api_key |-> c.api_key, timestamp |-> ts, path |-> path,
              method |-> method, body |-> body_str],
             Transport(net))

\* CryptoAPITrading._request
_request(c, method, path, body_obj, ts, net) ==
    SendRequest(c, method, path, IF body_obj.present THEN JsonDumps(body_obj) ELSE "", ts, net)

RECURSIVE KeyValues(_, _)
\* [f"{key}={arg}" for arg in args if arg is not None]
KeyValues(key, args) ==
    IF Len(args) = 0 THEN <<>>
    ELSE IF Head(args) = Null THEN KeyValues(key, Tail(args))
    ELSE <<key \o "=" \o Head(args)>> \o KeyValues(key, Tail(args))

RECURSIVE NonEmptyKeyValues_KeepsEmpty(_, _)
\* the entries with only None skipped, as get_query_params does
NonEmptyKeyValues_KeepsEmpty(key, args) ==
    IF Len(args) = 0 THEN <<>>
    ELSE IF Head(args) = Null THEN NonEmptyKeyValues_KeepsEmpty(key, Tail(args))
    ELSE <<key \o "=" \o Head(args)>> \o NonEmptyKeyValues_KeepsEmpty(key, Tail(args))

RECURSIVE NonEmptyKeyValues(_, _)
\* [f"{key}={arg}" for arg in args if arg]   (get_trading_pairs, get_holdings)
NonEmptyKeyValues(key, args) ==
    IF Len(args) = 0 THEN <<>>
    ELSE IF ~Truthy(Head(args)) THEN NonEmptyKeyValues(key, Tail(args))
    ELSE <<key \o "=" \o Head(args)>> \o NonEmptyKeyValues(key, Tail(args))

\* ("?" + "&".join(params)) if params else ""
QueryString(params) == IF Len(params) = 0 THEN "" ELSE "?" \o Join(params, "&")

\* CryptoAPITrading.get_query_params
get_query_params(key, args) ==
    IF Len(args) = 0 THEN "" ELSE QueryString(KeyValues(key, args))

\* the trailing limit / cursor parameters shared by the listing operations
LimitCursor(limit, cursor) ==
    (IF limit # NoneNum THEN <<"limit=" \o ToString(limit)>> ELSE <<>>)
    \o (IF cursor # Null THEN <<"cursor=" \o cursor>> ELSE <<>>)

get_account_path == "/api/v1/crypto/trading/accounts/"

get_best_bid_ask_path(symbols) ==
    "/api/v1/crypto/marketdata/best_bid_ask/" \o get_query_params("symbol", symbols)

get_estimated_price_path(symbol, side, quantity) ==
    "/api/v1/crypto/marketdata/estimated_price/?symbol=" \o symbol
    \o "&side=" \o side \o "&quantity=" \o quantity

get_trading_pairs_path(symbols, limit, cursor) ==
    "/api/v1/crypto/trading/trading_pairs/"
    \o QueryString(NonEmptyKeyValues("symbol", symbols) \o LimitCursor(limit, cursor))

get_holdings_path(asset_codes, limit, cursor) ==
    "/api/v1/crypto/trading/holdings/"
    \o QueryString(NonEmptyKeyValues("asset_code", asset_codes) \o LimitCursor(limit, cursor))

\* The keyword filters of get_orders, in the order the code adds them.
OrderFilterKeys ==
    <<"symbol", "side", "state", "type", "created_at_start", "created_at_end",
      "updated_at_start", "updated_at_end">>

RECURSIVE AddFilters(_, _)
\* add(k, v) for each filter: kept when v is not None
AddFilters(keys, f) ==
    IF Len(keys) = 0 THEN <<>>
    ELSE (IF f[Head(keys)] # Null THEN <<Head(keys) \o "=" \o f[Head(keys)]>> ELSE <<>>)
         \o AddFilters(Tail(keys), f)

get_orders_path(filters, limit, cursor) ==
    "/api/v1/crypto/trading/orders/"
    \o QueryString(AddFilters(OrderFilterKeys, filters) \o LimitCursor(limit, cursor))

get_order_path(order_id) == "/api/v1/crypto/trading/orders/" \o order_id \o "/"

cancel_order_path(order_id) == "/api/v1/crypto/trading/orders/" \o order_id \o "/cancel/"

place_order_path == "/api/v1/crypto/trading/orders/"

----------------------------------------------------------------------------
(* The client as a state machine: construction, then any operation. *)

MaxArgs    == 2     \* positional arguments given to a listing operation
MaxFilters == 1     \* keyword filters given to get_orders

Timestamps  == {1700000000, 1700000009}
ArgKeys     == {Null, "", "arg-key"}
ArgPrivKeys == {Null, "", GoodKey, BadB64Key, ShortKey}
PairSymbols == {Null, "", "BTC-USD"}
AssetCodes  == {Null, "", "BTC", "ETH"}
Limits      == {NoneNum, 5}
Cursors     == {Null, "c1"}
OrderIds    == {"o-1"}

OrderFilters ==
    {f \in [{OrderFilterKeys[i] : i \in 1..Len(OrderFilterKeys)} -> {Null, "x"}] :
        Cardinality({k \in DOMAIN f : f[k] # Null}) <= MaxFilters}

ClientEnvs ==
    [API_KEY : {Null, "env-key"}, ROBINHOOD_API_KEY : {Null, ""},
     BASE64_PRIVATE_KEY : {Null}, ROBINHOOD_BASE64_PRIVATE_KEY : {Null, GoodKey},
     CMC_API_KEY : {Null}]

Response(b) == [kind |-> "response", body |-> b]
NetFailure(k) == [kind |-> k, body |-> NoJson]
NetOutcomes(bodies) == {NetFailure(k) : k \in NetFailures} \cup {Response(b) : b \in bodies}

GenericBodies == {ServerError, Page(<<>>)}

NoClient == [constructed |-> FALSE, api_key |-> Null, base64_private_key |-> Null,
             base_url |-> DEFAULT_BASE_URL]
\* the arguments of a listing operation: <<positional arguments, limit, cursor>>
NoArgs == <<<<>>, NoneNum, Null>>
Args(positional, limit, cursor) == <<positional, limit, cursor>>

NoCall == [op |-> "", method |-> "", path |-> "", args |-> NoArgs, net |-> "", raised |-> "",
           ret |-> NoJson, signed |-> FALSE, dispatched |-> FALSE]

CredsMissing(c) == ~Truthy(c.api_key) \/ ~Truthy(c.base64_private_key)

\* client = CryptoAPITrading(api_key, base64_private_key)
Construct(api_key, base64_private_key) ==
    /\ ~client.constructed
    /\ client' = CryptoAPITrading_init(api_key, base64_private_key, env)
    /\ UNCHANGED <<env, lastRequest, lastSigned, lastCall, cmc, snapVars, display, dilution, signing>>

\* What an operation leaves behind: its outcome, and the request and
\* signature inputs when there were any.
\* (net is what the network did with the request, "" when none was sent)
Record(op, method, path, args, net, r) ==
    /\ lastCall' = [op |-> op, method |-> method, path |-> path, args |-> args,
                    net |-> IF r.dispatched THEN net.kind ELSE "",
                    raised |-> r.raised, ret |-> r.ret,
                    signed |-> r.signed, dispatched |-> r.dispatched]
    /\ lastRequest' = IF r.dispatched THEN r.request ELSE lastRequest
    /\ lastSigned' = IF r.signed THEN r.signedInput ELSE lastSigned

\* One client operation: the request it builds goes through _request.
Operation(op, method, path, args, body_obj, ts, net) ==
    /\ client.constructed
    /\ lastCall = NoCall
    /\ Record(op, method, path, args, net, _request(client, method, path, body_obj, ts, net))
    /\ UNCHANGED <<env, client, cmc, snapVars, display, dilution, signing>>

get_account ==
    \E ts \in Timestamps, net \in NetOutcomes(GenericBodies) :
        Operation("get_account", "GET", get_account_path, NoArgs, NoBody, ts, net)

get_best_bid_ask ==
    \E symbols \in SeqsUpTo(PairSymbols, MaxArgs), ts \in Timestamps,
       net \in NetOutcomes(GenericBodies) :
        Operation("get_best_bid_ask", "GET", get_best_bid_ask_path(symbols),
                  Args(symbols, NoneNum, Null), NoBody, ts, net)

get_estimated_price ==
    \E symbol \in {"BTC-USD"}, side \in {"bid", "ask"}, quantity \in {"0.1"},
       ts \in Timestamps, net \in NetOutcomes(GenericBodies) :
        Operation("get_estimated_price", "GET",
                  get_estimated_price_path(symbol, side, quantity), NoArgs, NoBody, ts, net)

get_trading_pairs ==
    \E symbols \in SeqsUpTo(PairSymbols, MaxArgs), limit \in Limits, cursor \in Cursors,
       ts \in Timestamps, net \in NetOutcomes(GenericBodies) :
        Operation("get_trading_pairs", "GET",
                  get_trading_pairs_path(symbols, limit, cursor),
                  Args(symbols, limit, cursor), NoBody, ts, net)

get_holdings ==
    \E asset_codes \in SeqsUpTo(AssetCodes, MaxArgs), limit \in Limits, cursor \in Cursors,
       ts \in Timestamps, net \in NetOutcomes(GenericBodies) :
        Operation("get_holdings", "GET",
                  get_holdings_path(asset_codes, limit, cursor),
                  Args(asset_codes, limit, cursor), NoBody, ts, net)

get_orders ==
    \E filters \in OrderFilters, limit \in Limits, cursor \in Cursors,
       ts \in Timestamps, net \in NetOutcomes(GenericBodies) :
        Operation("get_orders", "GET", get_orders_path(filters, limit, cursor),
                  Args(<<>>, limit, cursor), NoBody, ts, net)

get_order ==
    \E order_id \in OrderIds, ts \in Timestamps, net \in NetOutcomes(GenericBodies) :
        Operation("get_order", "GET", get_order_path(order_id), NoArgs, NoBody, ts, net)

cancel_order ==
    \E order_id \in OrderIds, ts \in Timestamps, net \in NetOutcomes(GenericBodies) :
        Operation("cancel_order", "POST", cancel_order_path(order_id), NoArgs, NoBody, ts, net)

place_order ==
    \E b \in OrderBodies, ts \in Timestamps, net \in NetOutcomes(GenericBodies) :
        Operation("place_order", "POST", place_order_path, NoArgs, b, ts, net)

\* The caller takes the outcome of the operation; the next one starts afresh.
Return ==
    /\ lastCall # NoCall
    /\ lastCall' = NoCall
    /\ lastRequest' = NoRequest
    /\ lastSigned' = NoSigned
    /\ UNCHANGED <<env, client, cmc, snapVars, display, dilution, signing>>

----------------------------------------------------------------------------
(* The signer on its own: generate_signature_base64 called twice, as a
   golden-vector test does. *)

\* No call made yet, in either slot.
SigningIdle ==
    LET none == [done |-> FALSE, api_key |-> "", base64_private_key |-> "",
                 timestamp |-> NoneNum, path |-> "", method |-> "", body |-> "",
                 raised |-> "", signature |-> ""]
    IN  [first |-> none, second |-> none]

\* one call with its arguments and what it gave
Signed(api_key, base64_private_key, timestamp, path, method, body, s) ==
    [done |-> TRUE, api_key |-> api_key, base64_private_key |-> base64_private_key,
     timestamp |-> timestamp, path |-> path, method |-> method, body |-> body,
     raised |-> s.raised, signature |-> s.signature]

\* The slot a call fills: the first, then the second.
Filled(r) ==
    signing' = IF ~signing.first.done THEN [signing EXCEPT !.first = r]
               ELSE [signing EXCEPT !.second = r]

\* generate_signature_base64(api_key, base64_private_key, timestamp, path, method, body)
SignCall ==
    /\ ~signing.second.done
    /\ \E api_key \in {"arg-key", "env-key"}, base64_private_key \in {GoodKey, BadB64Key},
          timestamp \in Timestamps,
          path \in {get_account_path, get_holdings_path(<<>>, NoneNum, Null),
                    get_holdings_path(<<>>, 5, Null)},
          method \in {"GET", "POST"},
          body \in {"", JsonDumps(OrderBody("o-1", "buy", "market", "BTC-USD", "0.1"))} :
            Filled(Signed(api_key, base64_private_key, timestamp, path, method, body,
                          generate_signature_base64(api_key, base64_private_key, timestamp,
                                                    path, method, body)))
    /\ UNCHANGED <<env, clientVars, cmc, snapVars, display, dilution>>

----------------------------------------------------------------------------
(* utils/coinmarketcap.py *)

MaxAttempts == 3    \* for attempt in range(3)
LastRetry   == 2    \* if attempt < 2
BackoffBase == 1    \* time.sleep(1 + attempt * 2)
BackoffStep == 2

\* The USD quote dict of the vendor; null fields are NoneNum.
NoUsd == [price |-> NoneNum, market_cap |-> NoneNum, fully_diluted_market_cap |-> NoneNum]
Usd(price, market_cap, fdmc) ==
    [price |-> price, market_cap |-> market_cap, fully_diluted_market_cap |-> fdmc]

\* A vendor response body: the symbol its "data" is keyed by, whether that
\* entry carries quote.USD, the listing items, and an opaque payload tag.
NoData == [tag |-> "", symbol |-> "", has_usd |-> FALSE, usd |-> NoUsd, listings |-> <<>>]
QuoteData(symbol, has_usd, usd) ==
    [tag |-> "quote", symbol |-> symbol, has_usd |-> has_usd, usd |-> usd, listings |-> <<>>]
ListingData(items) ==
    [tag |-> "listings", symbol |-> "", has_usd |-> FALSE, usd |-> NoUsd, listings |-> items]
OhlcvData(tag) ==
    [tag |-> tag, symbol |-> "", has_usd |-> FALSE, usd |-> NoUsd, listings |-> <<>>]

\* What the vendor does with one request: a body with error_code 0, a
\* transport failure or HTTP error status (requests.RequestException), or a
\* body whose status.error_code is not 0 (error_message may be null).
VendorOk(data)       == [kind |-> "ok", message |-> "", data |-> data]
VendorTransport      == [kind |-> "transport", message |-> "503 Server Error", data |-> NoData]
VendorError(message) == [kind |-> "vendor_error", message |-> message, data |-> NoData]

\* _cmc_get with the vendor's status object ignored.
_cmc_get_NoStatusCheck(path, api_key, v) ==
    IF ~Truthy(api_key)
    THEN [raised |-> "CoinMarketCapError", message |-> "CMC_API_KEY not set in environment",
          requested |-> FALSE, data |-> NoData]
    ELSE IF v.kind = "transport"
    THEN [raised |-> "CoinMarketCapError", message |-> "Request failed: " \o v.message,
          requested |-> TRUE, data |-> NoData]
    ELSE [raised |-> "", message |-> "", requested |-> TRUE, data |-> v.data]

\* _cmc_get: the key check, the request, the status check.
_cmc_get(path, api_key, v) ==
    IF ~Truthy(api_key)
    THEN [raised |-> "CoinMarketCapError", message |-> "CMC_API_KEY not set in environment",
          requested |-> FALSE, data |-> NoData]
    ELSE IF v.kind = "transport"
    THEN [raised |-> "CoinMarketCapError", message |-> "Request failed: " \o v.message,
          requested |-> TRUE, data |-> NoData]
    ELSE IF v.kind = "vendor_error"
    THEN [raised |-> "CoinMarketCapError", message |-> Or(v.message, "CMC API error"),
          requested |-> TRUE, data |-> NoData]
    ELSE [raised |-> "", message |-> "", requested |-> TRUE, data |-> v.data]

\* get_latest_quote(symbol): one lookup.  str.upper() on None is an AttributeError.
get_latest_quote(symbol, api_key, v) ==
    IF symbol = Null
    THEN [raised |-> "AttributeError", message |-> "", requested |-> FALSE, data |-> NoData]
    ELSE _cmc_get("/cryptocurrency/quotes/latest", api_key, v)

\* get_top_listings(limit, convert): one lookup.
get_top_listings(limit, api_key, v) == _cmc_get("/cryptocurrency/listings/latest", api_key, v)

\* The query parameters of the three lookups, as key=value pairs.
latest_quote_params(symbol) == "symbol=" \o Upper(symbol)

top_listings_params(limit, convert) ==
    "start=1&limit=" \o ToString(limit) \o "&convert=" \o convert

historical_ohlcv_params(symbol, time_start, time_end, interval) ==
    "symbol=" \o Upper(symbol) \o "&interval=" \o interval
    \o (IF Truthy(time_start) THEN "&time_start=" \o time_start ELSE "")
    \o (IF Truthy(time_end) THEN "&time_end=" \o time_end ELSE "")

\* the backoff slept after the failure of attempt number `attempt` (from 0)
Backoff_Constant(attempt) == BackoffBase
Backoff(attempt) == BackoffBase + attempt * BackoffStep

\* whether the except branch of get_historical_ohlcv sleeps and goes on
Retries_Always(attempt) == TRUE
Retries(attempt) == attempt < LastRetry

CmcIdle == [fn |-> "", params |-> "", pc |-> "idle", attempt |-> 0, lookups |-> 0, requests |-> 0,
            sleeps |-> <<>>, outcomes |-> <<>>, raised |-> "", message |-> "", ret |-> NoData]

\* One lookup as it went: what stood in its way ("no_key" when the key is
\* not set, else what the vendor did), and what _cmc_get made of it.
Observed(api_key, v, r) ==
    [kind |-> IF ~Truthy(api_key) THEN "no_key" ELSE v.kind,
     raised |-> r.raised, message |-> r.message, data |-> r.data]

CmcKeys       == {Null, "", "cmc-key"}
QuoteSymbols  == {"btc", "ETH"}
OhlcvOutcomes ==
    {VendorOk(OhlcvData("bars-1")), VendorOk(OhlcvData("bars-2")), VendorTransport,
     VendorError("Rate limit"), VendorError(Null)}
QuoteOutcomes ==
    {VendorOk(QuoteData("BTC", TRUE, Usd(3, 2, 4))), VendorOk(QuoteData("BTC", FALSE, NoUsd)),
     VendorTransport, VendorError("Invalid symbol")}
ListingItem(rank, symbol, usd) == [cmc_rank |-> rank, symbol |-> symbol, usd |-> usd]
ListingOutcomes ==
    {VendorOk(ListingData(<<>>)),
     VendorOk(ListingData(<<ListingItem(1, "BTC", Usd(3, 2, 4)), ListingItem(2, "ETH", Usd(1, 2, 3))>>)),
     VendorTransport, VendorError("Plan limit")}

\* A caller invokes get_latest_quote.
CallLatestQuote ==
    \E symbol \in QuoteSymbols, v \in QuoteOutcomes :
        /\ cmc.pc # "loop"
        /\ LET r == get_latest_quote(symbol, env.CMC_API_KEY, v)
           IN  cmc' = [fn |-> "get_latest_quote", params |-> latest_quote_params(symbol),
                       pc |-> "done", attempt |-> 0, lookups |-> 1,
                       requests |-> IF r.requested THEN 1 ELSE 0, sleeps |-> <<>>,
                       outcomes |-> <<Observed(env.CMC_API_KEY, v, r)>>, raised |-> r.raised,
                       message |-> r.message, ret |-> r.data]
        /\ UNCHANGED <<env, clientVars, snapVars, display, dilution, signing>>

\* A caller invokes get_top_listings.
CallTopListings ==
    \E limit \in {1, 50}, v \in ListingOutcomes :
        /\ cmc.pc # "loop"
        /\ LET r == get_top_listings(limit, env.CMC_API_KEY, v)
           IN  cmc' = [fn |-> "get_top_listings", params |-> top_listings_params(limit, "USD"),
                       pc |-> "done", attempt |-> 0, lookups |-> 1,
                       requests |-> IF r.requested THEN 1 ELSE 0, sleeps |-> <<>>,
                       outcomes |-> <<Observed(env.CMC_API_KEY, v, r)>>, raised |-> r.raised,
                       message |-> r.message, ret |-> r.data]
        /\ UNCHANGED <<env, clientVars, snapVars, display, dilution, signing>>

\* A caller invokes get_historical_ohlcv: the loop starts at attempt 0.
CallHistoricalOhlcv ==
    /\ cmc.pc # "loop"
    /\ \E symbol \in QuoteSymbols, time_start \in {Null, "", "2025-01-01"},
          time_end \in {Null, "2025-01-31"}, interval \in {"daily", "hourly"} :
        cmc' = [CmcIdle EXCEPT !.fn = "get_historical_ohlcv", !.pc = "loop",
                               !.params = historical_ohlcv_params(symbol, time_start,
                                                                  time_end, interval)]
    /\ UNCHANGED <<env, clientVars, snapVars, display, dilution, signing>>

\* One iteration of the loop of get_historical_ohlcv: the lookup, and on a
\* CoinMarketCapError either the backoff sleep or the re-raise.
OhlcvAttempt ==
    \E v \in OhlcvOutcomes :
        /\ cmc.pc = "loop"
        /\ cmc.attempt < MaxAttempts
        /\ LET r    == _cmc_get("/cryptocurrency/ohlcv/historical", env.CMC_API_KEY, v)
               base == [cmc EXCEPT !.lookups = @ + 1,
                                   !.requests = @ + (IF r.requested THEN 1 ELSE 0),
                                   !.outcomes = Append(@, Observed(env.CMC_API_KEY, v, r))]
           IN  cmc' = IF r.raised = ""
                      THEN [base EXCEPT !.pc = "done", !.ret = r.data]
                      ELSE IF Retries(cmc.attempt)
                      THEN [base EXCEPT !.sleeps = Append(@, Backoff(cmc.attempt)),
                                        !.attempt = @ + 1,
                                        \* range(3) exhausted: the function falls off
                                        \* its end and returns None
                                        !.pc = IF cmc.attempt + 1 < MaxAttempts
                                               THEN "loop" ELSE "done"]
                      ELSE [base EXCEPT !.pc = "done", !.raised = r.raised,
                                        !.message = r.message]
        /\ UNCHANGED <<env, clientVars, snapVars, display, dilution, signing>>

----------------------------------------------------------------------------
(* utils/pricing.py *)

\* float(s) on the quantity strings that occur: the number, or the exception
\* (ValueError for a non-numeric string, TypeError for None).
ParseFloat(s) ==
    CASE s = "0"   -> [raised |-> "", value |-> 0]
      [] s = "2"   -> [raised |-> "", value |-> 2]
      [] s = Null  -> [raised |-> "TypeError", value |-> 0]
      [] OTHER     -> [raised |-> "ValueError", value |-> 0]

\* One entry of the "results" of the holdings endpoint; .get() gives None
\* for a key the entry lacks.
Holding(asset_code, quantity) ==
    [asset_code |-> asset_code, quantity_available_for_trading |-> quantity]

\* The loop of get_all_holdings over holdings.get("results", []).
HoldingTuples(r) ==
    [raised  |-> r.raised,
     results |-> IF r.raised = "" /\ r.ret.has_results
                 THEN [i \in 1..Len(r.ret.results) |->
                          <<r.ret.results[i].asset_code,
                            r.ret.results[i].quantity_available_for_trading>>]
                 ELSE <<>>,
     request |-> r]

\* get_all_holdings(client): the (asset_code, quantity) tuples of
\* holdings.get("results", []), or the exception of client.get_holdings().
get_all_holdings(c, ts, net) ==
    HoldingTuples(_request(c, "GET", get_holdings_path(<<>>, NoneNum, Null), NoBody, ts, net))

\* One iteration of the for loop of fetch_cmc_quotes_for_holdings, given
\* the parsed quantity, the lookup's outcome and the outcome of the rest of
\* the loop: the exception that ends the loop ("" when it runs through) and
\* the number of vendor lookups and vendor requests made.
QuoteStep(asset, quantity, q, rest) ==
    IF quantity.raised # ""
    THEN [raised |-> quantity.raised, lookups |-> 0, requests |-> 0]
    ELSE IF q.raised \notin {"", "CoinMarketCapError"}
    THEN [raised |-> q.raised, lookups |-> 1, requests |-> 0]
    ELSE IF q.raised = "" /\ q.data.symbol = Upper(asset) /\ q.data.has_usd
            /\ q.data.usd.price = NoneNum
    \* quantity * None, and None formatted with :.2f
    THEN [raised |-> "TypeError", lookups |-> 1, requests |-> 1]
    ELSE [raised   |-> rest.raised,
          lookups  |-> rest.lookups + 1,
          requests |-> rest.requests + (IF q.requested THEN 1 ELSE 0)]

RECURSIVE QuoteLoop(_, _, _, _)
\* The for loop of fetch_cmc_quotes_for_holdings from holding number i on.
QuoteLoop(holdings, i, api_key, quotes) ==
    IF i > Len(holdings) THEN [raised |-> "", lookups |-> 0, requests |-> 0]
    ELSE QuoteStep(holdings[i][1], ParseFloat(holdings[i][2]),
                   get_latest_quote(holdings[i][1], api_key, quotes[i]),
                   QuoteLoop(holdings, i + 1, api_key, quotes))

\* fetch_cmc_quotes_for_holdings without the early return on a missing key.
fetch_cmc_quotes_for_holdings_NoKeyCheck(holdings, api_key, quotes) ==
    IF Len(holdings) = 0
    THEN [raised |-> "", lookups |-> 0, requests |-> 0]
    ELSE QuoteLoop(holdings, 1, api_key, quotes)

\* fetch_cmc_quotes_for_holdings(holdings)
fetch_cmc_quotes_for_holdings(holdings, api_key, quotes) ==
    IF ~Truthy(api_key)
    THEN [raised |-> "", lookups |-> 0, requests |-> 0]
    ELSE IF Len(holdings) = 0
    THEN [raised |-> "", lookups |-> 0, requests |-> 0]
    ELSE QuoteLoop(holdings, 1, api_key, quotes)

----------------------------------------------------------------------------
(* utils/logger.py *)

\* The instants the wall clock passes through (UTC): two on one date, then
\* the first of the next date, which is also in the next month.
Calendar ==
    <<[year |-> 2025, month |-> 1, day |-> 31, time |-> "23:59:58"],
      [year |-> 2025, month |-> 1, day |-> 31, time |-> "23:59:59"],
      [year |-> 2025, month |-> 2, day |-> 1,  time |-> "00:00:00"]>>

\* f"{n:02d}" and f"{n:04d}"
Pad2(n) == IF n < 10 THEN "0" \o ToString(n) ELSE ToString(n)
Pad4(n) ==
    IF n < 10 THEN "000" \o ToString(n)
    ELSE IF n < 100 THEN "00" \o ToString(n)
    ELSE IF n < 1000 THEN "0" \o ToString(n)
    ELSE ToString(n)

\* _date_parts(dt)
_date_parts(dt) == <<Pad4(dt.year), Pad2(dt.month), Pad2(dt.day)>>

\* _ensure_daily_path(base_dir): the directory it makes sure exists and the
\* file path it returns (with the instant read from the clock).
_ensure_daily_path(base_dir, now) ==
    LET parts    == _date_parts(now)
        dir_path == base_dir \o "/" \o parts[1] \o "/" \o parts[2]
    IN  [dir_path |-> dir_path, file_path |-> dir_path \o "/" \o parts[3] \o ".json", now |-> now]

Paths == {_ensure_daily_path("logs", Calendar[i]).file_path : i \in 1..Len(Calendar)}

\* A row of the snapshot's "holdings" array.  has_quote says the keys
\* price_usd, value_usd and usd_quote are present; quote_is_null says their
\* value is null; has_error says the key error is present.
Row(symbol, quantity) ==
    [symbol |-> symbol, quantity |-> quantity, has_quote |-> FALSE, quote_is_null |-> FALSE,
     price_usd |-> NoneNum, value_usd |-> NoneNum, usd_quote |-> NoUsd,
     has_error |-> FALSE, error |-> ""]

\* The try block of the loop of _fetch_holdings_quotes: the row and the
\* value it adds to the total, given the lookup's outcome.
QuotedRow(symbol, qty, q) ==
    IF q.raised = "CoinMarketCapError"
    THEN [raised |-> "",
          row |-> [Row(symbol, qty) EXCEPT !.has_error = TRUE, !.error = q.message],
          value |-> 0, requested |-> q.requested]
    ELSE IF q.raised # ""
    THEN [raised |-> q.raised, row |-> Row(symbol, qty), value |-> 0, requested |-> q.requested]
    ELSE IF q.data.symbol = symbol /\ q.data.has_usd /\ q.data.usd.price = BadNum
    \* float(usd.get("price") or 0) on a string that is no number
    THEN [raised |-> "ValueError", row |-> Row(symbol, qty), value |-> 0,
          requested |-> q.requested]
    ELSE IF q.data.symbol = symbol /\ q.data.has_usd
    THEN [raised |-> "",
          row |-> [Row(symbol, qty) EXCEPT
                      !.has_quote = TRUE,
                      !.price_usd = IF TruthyNum(q.data.usd.price) THEN q.data.usd.price ELSE 0,
                      !.value_usd = qty * (IF TruthyNum(q.data.usd.price)
                                           THEN q.data.usd.price ELSE 0),
                      !.usd_quote = q.data.usd],
          value |-> qty * (IF TruthyNum(q.data.usd.price) THEN q.data.usd.price ELSE 0),
          requested |-> q.requested]
    ELSE [raised |-> "",
          row |-> [Row(symbol, qty) EXCEPT !.has_quote = TRUE, !.quote_is_null = TRUE],
          value |-> 0, requested |-> q.requested]

\* qty = float(qty_str), 0.0 on TypeError or ValueError
Quantity(parsed) == IF parsed.raised = "" THEN parsed.value ELSE 0

\* The lookup of one symbol and its row.
SymbolRow(symbol, qty, api_key, v) == QuotedRow(symbol, qty, get_latest_quote(symbol, api_key, v))

\* The body of the for loop of _fetch_holdings_quotes for one holding.
HoldingRow(asset, qty_str, api_key, v) ==
    SymbolRow(Upper(Or(asset, "")), Quantity(ParseFloat(qty_str)), api_key, v)

RECURSIVE SumValues(_)
SumValues(rs) == IF Len(rs) = 0 THEN 0 ELSE Head(rs).value + SumValues(Tail(rs))

\* the rows before the first one whose try block let an exception through
RECURSIVE Completed(_)
Completed(rs) ==
    IF Len(rs) = 0 \/ Head(rs).raised # "" THEN <<>>
    ELSE <<Head(rs)>> \o Completed(Tail(rs))

\* What _fetch_holdings_quotes comes to once the loop has run: the return
\* value, or the exception that ended the loop at the row after done.
Collected(request, rs, done) ==
    IF Len(done) < Len(rs)
    THEN [raised |-> rs[Len(done) + 1].raised, holdings |-> <<>>, total_value |-> 0,
          request |-> request, lookups |-> Len(done) + 1]
    ELSE [raised |-> "", holdings |-> [i \in 1..Len(rs) |-> rs[i].row],
          total_value |-> SumValues(rs), request |-> request, lookups |-> Len(rs)]

\* the loop of _fetch_holdings_quotes over the tuples of get_all_holdings
LoopRows(request, rs) == Collected(request, rs, Completed(rs))

\* _fetch_holdings_quotes after get_all_holdings: any exception of it is
\* swallowed and the empty list returned.
QuoteHoldings(rh, api_key, quotes) ==
    IF rh.raised # ""
    THEN [raised |-> "", holdings |-> <<>>, total_value |-> 0, request |-> rh.request,
          lookups |-> 0]
    ELSE LoopRows(rh.request,
                  [i \in 1..Len(rh.results) |->
                      HoldingRow(rh.results[i][1], rh.results[i][2], api_key, quotes[i])])

\* _fetch_holdings_quotes(client): the rows, the total, and what it
\* requested on the way.
_fetch_holdings_quotes(c, ts, net, api_key, quotes) ==
    QuoteHoldings(get_all_holdings(c, ts, net), api_key, quotes)

TopRow(item) ==
    [rank |-> item.cmc_rank, symbol |-> item.symbol, price_usd |-> item.usd.price,
     market_cap_usd |-> item.usd.market_cap, usd_quote |-> item.usd]

\* data.get("data", [])[:limit] mapped to rows, or [] on a CoinMarketCapError
TopRows(limit, r) ==
    IF r.raised # "" THEN <<>>
    ELSE [i \in 1..(IF Len(r.data.listings) < limit THEN Len(r.data.listings) ELSE limit) |->
             TopRow(r.data.listings[i])]

\* _fetch_top_coins(limit)
_fetch_top_coins(limit, api_key, v) == TopRows(limit, get_top_listings(limit, api_key, v))

\* The payload dict write_daily_snapshot dumps.
Payload(now, holdings, total_value, top_coins) ==
    LET parts == _date_parts(now)
    IN  [date |-> parts[1] \o "-" \o parts[2] \o "-" \o parts[3],
         generated_at_iso |-> parts[1] \o "-" \o parts[2] \o "-" \o parts[3]
                              \o "T" \o now.time \o "Z",
         holdings |-> holdings,
         top_coins |-> top_coins,
         summary |-> [portfolio_value_usd |-> total_value,
                      num_holdings |-> Len(holdings),
                      top_count |-> Len(top_coins)]]

EmptyDoc == Payload([year |-> 0, month |-> 0, day |-> 0, time |-> ""], <<>>, 0, <<>>)
\* (by is the invocation whose write the file holds, 0 when there is none)
NoFile == [exists |-> FALSE, content |-> EmptyDoc, by |-> 0]
File(doc, p) == [exists |-> TRUE, content |-> doc, by |-> p]

\* `if os.path.exists(file_path) and not overwrite: return file_path`
SkipWrite_WhenAbsent(exists, overwrite) == ~exists /\ ~overwrite
SkipWrite_IgnoresOverwrite(exists, overwrite) == exists
SkipWrite_Never(exists, overwrite) == FALSE
SkipWrite(exists, overwrite) == exists /\ ~overwrite

----------------------------------------------------------------------------
(* utils/asset_analysis.py *)

\* fully_diluted_cap / market_cap > 1.5, for market_cap # 0, without division
RatioExceeds(fully_diluted_cap, market_cap) ==
    \/ market_cap > 0 /\ 2 * fully_diluted_cap > 3 * market_cap
    \/ market_cap < 0 /\ 2 * fully_diluted_cap < 3 * market_cap

RECURSIVE check_dillution(_)
\* check_dillution over log_data["holdings"]: the value returned, or the
\* exception of the first row it cannot read (KeyError when the row has no
\* usd_quote key, TypeError when usd_quote is null).
check_dillution(holdings) ==
    IF Len(holdings) = 0 THEN [raised |-> "", ret |-> FALSE]
    ELSE LET holding == Head(holdings)
             market_cap == holding.usd_quote.market_cap
             fully_diluted_cap == holding.usd_quote.fully_diluted_market_cap
         IN  IF ~holding.has_quote THEN [raised |-> "KeyError", ret |-> FALSE]
             ELSE IF holding.quote_is_null THEN [raised |-> "TypeError", ret |-> FALSE]
             ELSE IF TruthyNum(fully_diluted_cap) /\ TruthyNum(market_cap)
                     /\ RatioExceeds(fully_diluted_cap, market_cap)
             THEN [raised |-> "", ret |-> TRUE]
             ELSE check_dillution(Tail(holdings))

----------------------------------------------------------------------------
(* The snapshot writer as a state machine.  An invocation of
   write_daily_snapshot takes two steps: the path and existence check, then
   (unless it returned) the fetches and the whole-document write. *)

Btc == Holding("btc", "2")
Eth == Holding("ETH", "abc")
Nul == Holding(Null, Null)
HoldingsBodies == {ServerError, Page(<<>>), Page(<<Nul>>), Page(<<Btc, Eth>>)}

SnapQuoteOutcomes ==
    {VendorOk(QuoteData("BTC", TRUE, Usd(3, 2, 4))), VendorOk(QuoteData("ETH", TRUE, Usd(5, 2, 4))),
     VendorOk(QuoteData("BTC", TRUE, Usd(BadNum, 2, 4))),
     VendorOk(QuoteData("BTC", FALSE, NoUsd)), VendorError("Invalid symbol")}
SnapTopOutcomes ==
    {VendorOk(ListingData(<<ListingItem(1, "BTC", Usd(3, 2, 4)), ListingItem(2, "ETH", Usd(1, 2, 3))>>)),
     VendorTransport}
TopLimits == {1}

SnapEnvs ==
    [API_KEY : {Null, "env-key"}, ROBINHOOD_API_KEY : {Null},
     BASE64_PRIVATE_KEY : {GoodKey}, ROBINHOOD_BASE64_PRIVATE_KEY : {Null},
     CMC_API_KEY : {Null, "cmc-key"}]

NoInputs == [ts |-> 0, net |-> NetFailure("ConnectionError"), quotes |-> <<>>,
             top |-> VendorTransport, top_limit |-> 0]

\* (before is the file as the existence check found it)
ProcIdle == [pc |-> "idle", overwrite |-> FALSE, now |-> 1, file_path |-> "",
             existed |-> FALSE, before |-> NoFile,
             wrote |-> FALSE, fetched |-> FALSE, raised |-> "", inputs |-> NoInputs,
             brokerage_requested |-> FALSE, vendor_lookups |-> 0]

\* the number of holdings a brokerage outcome carries
NumResults(net) == IF net.kind = "response" /\ net.body.has_results THEN Len(net.body.results) ELSE 0

\* write_daily_snapshot(client, overwrite=...): _ensure_daily_path and the
\* existence check; returns the existing path, or goes on to fetch.
Call(p, overwrite) ==
    /\ proc[p].pc # "fetching"
    /\ LET path == _ensure_daily_path("logs", Calendar[clock])
           exists == files[path.file_path].exists
       IN  /\ dirs' = dirs \cup {path.dir_path}
           /\ proc' = [proc EXCEPT ![p] =
                         [ProcIdle EXCEPT !.pc = IF SkipWrite(exists, overwrite)
                                                 THEN "returned" ELSE "fetching",
                                          !.overwrite = overwrite, !.now = clock,
                                          !.file_path = path.file_path, !.existed = exists,
                                          !.before = files[path.file_path]]]
    /\ UNCHANGED <<env, clientVars, cmc, clock, files, display, dilution, signing>>

\* the write done only when the file is still absent at the time of writing
WriteDocument_KeepsExisting(p, inputs, h, tc) ==
    /\ files' = IF files[proc[p].file_path].exists THEN files
                ELSE [files EXCEPT ![proc[p].file_path] =
                         File(Payload(Calendar[proc[p].now], h.holdings, h.total_value, tc), p)]
    /\ proc' = [proc EXCEPT ![p].pc = "returned", ![p].wrote = TRUE, ![p].fetched = TRUE,
                            ![p].inputs = inputs,
                            ![p].brokerage_requested = h.request.dispatched,
                            ![p].vendor_lookups = h.lookups + 1]

\* The write of write_daily_snapshot: the payload built from what was
\* fetched goes to file_path as a whole document.
WriteDocument(p, inputs, h, tc) ==
    /\ files' = [files EXCEPT ![proc[p].file_path] =
                    File(Payload(Calendar[proc[p].now], h.holdings, h.total_value, tc), p)]
    /\ proc' = [proc EXCEPT ![p].pc = "returned", ![p].wrote = TRUE, ![p].fetched = TRUE,
                            ![p].inputs = inputs,
                            ![p].brokerage_requested = h.request.dispatched,
                            ![p].vendor_lookups = h.lookups + 1]

\* An exception of _fetch_holdings_quotes leaves write_daily_snapshot before
\* _fetch_top_coins and before the file is opened.
RaiseFromFetch(p, inputs, h) ==
    /\ files' = files
    /\ proc' = [proc EXCEPT ![p].pc = "raised", ![p].raised = h.raised, ![p].fetched = TRUE,
                            ![p].inputs = inputs,
                            ![p].brokerage_requested = h.request.dispatched,
                            ![p].vendor_lookups = h.lookups]

\* write_daily_snapshot from line 111 on, given what the fetches came to
FetchedThenWrite(p, inputs, h, tc) ==
    IF h.raised # "" THEN RaiseFromFetch(p, inputs, h) ELSE WriteDocument(p, inputs, h, tc)

\* The rest of write_daily_snapshot: _fetch_holdings_quotes, _fetch_top_coins,
\* the payload, open(file_path, "w") and json.dump.
FetchAndWrite(p) ==
    /\ proc[p].pc = "fetching"
    /\ \E ts \in Timestamps, net \in NetOutcomes(HoldingsBodies),
          top \in SnapTopOutcomes, top_limit \in TopLimits :
        \E quotes \in [1..NumResults(net) -> SnapQuoteOutcomes] :
            FetchedThenWrite(p, [ts |-> ts, net |-> net, quotes |-> quotes, top |-> top,
                                 top_limit |-> top_limit],
                             _fetch_holdings_quotes(client, ts, net, env.CMC_API_KEY, quotes),
                             _fetch_top_coins(top_limit, env.CMC_API_KEY, top))
    /\ UNCHANGED <<env, clientVars, cmc, clock, dirs, display, dilution, signing>>

\* The wall clock moves on.
Tick ==
    /\ clock < Len(Calendar)
    /\ clock' = clock + 1
    /\ UNCHANGED <<env, clientVars, cmc, files, dirs, proc, display, dilution, signing>>

----------------------------------------------------------------------------
(* The portfolio display (utils/pricing.py) as a state machine. *)

DisplayIdle == [ran |-> FALSE, net |-> NetFailure("ConnectionError"), quotes |-> <<>>,
                raised |-> "", brokerage_requested |-> FALSE,
                vendor_lookups |-> 0, vendor_requests |-> 0]

\* display_portfolio after get_all_holdings: its exception propagates, else
\* fetch_cmc_quotes_for_holdings runs.
Shown(rh, f) ==
    IF rh.raised # ""
    THEN [raised |-> rh.raised, brokerage_requested |-> rh.request.dispatched,
          vendor_lookups |-> 0, vendor_requests |-> 0]
    ELSE [raised |-> f.raised, brokerage_requested |-> rh.request.dispatched,
          vendor_lookups |-> f.lookups, vendor_requests |-> f.requests]

HoldingsThen(rh, api_key, quotes) ==
    Shown(rh, fetch_cmc_quotes_for_holdings(rh.results, api_key, quotes))

\* display_portfolio(client)
display_portfolio(c, ts, net, api_key, quotes) ==
    HoldingsThen(get_all_holdings(c, ts, net), api_key, quotes)

DisplayBodies ==
    {ServerError, Page(<<>>), Page(<<Btc>>), Page(<<Btc, Eth>>), Page(<<Nul>>),
     Page(<<Btc, Holding("ETH", "0")>>)}
DisplayQuoteOutcomes ==
    {VendorOk(QuoteData("BTC", TRUE, Usd(3, 2, 4))),
     VendorOk(QuoteData("BTC", TRUE, Usd(NoneNum, 2, 4))),
     VendorOk(QuoteData("BTC", FALSE, NoUsd)),
     VendorTransport, VendorError("Invalid symbol")}
DisplayEnvs ==
    [API_KEY : {Null, "env-key"}, ROBINHOOD_API_KEY : {Null},
     BASE64_PRIVATE_KEY : {Null, GoodKey, BadB64Key}, ROBINHOOD_BASE64_PRIVATE_KEY : {Null},
     CMC_API_KEY : CmcKeys]

Displayed(net, quotes, d) ==
    display' = [ran |-> TRUE, net |-> net, quotes |-> quotes, raised |-> d.raised,
                brokerage_requested |-> d.brokerage_requested,
                vendor_lookups |-> d.vendor_lookups, vendor_requests |-> d.vendor_requests]

\* A run of display_portfolio(client).
Display ==
    /\ \E ts \in Timestamps, net \in NetOutcomes(DisplayBodies) :
        \E quotes \in [1..NumResults(net) -> DisplayQuoteOutcomes] :
            Displayed(net, quotes, display_portfolio(client, ts, net, env.CMC_API_KEY, quotes))
    /\ UNCHANGED <<env, clientVars, cmc, snapVars, dilution, signing>>

----------------------------------------------------------------------------
(* The dilution analysis (utils/asset_analysis.py): check_dillution applied
   to a log. *)

MaxRows == 2    \* rows of a hand-written log

DilutionIdle == [loaded |-> FALSE, ran |-> FALSE, holdings |-> <<>>, raised |-> "", ret |-> FALSE]

\* Rows with a usd_quote dict, over market caps that cover the ratios below,
\* at and above 1.5 and the null and zero cases.
MarketCaps       == {NoneNum, 0, 2}
FullyDilutedCaps == {NoneNum, 0, 2, 3, 4}
QuoteRows ==
    {[Row("BTC", 2) EXCEPT !.has_quote = TRUE, !.price_usd = 3, !.value_usd = 6,
                           !.usd_quote = Usd(3, mc, fd)] :
        mc \in MarketCaps, fd \in FullyDilutedCaps}

\* The holdings arrays write_daily_snapshot writes when the brokerage and the
\* vendor answer as in SnapEnvs, HoldingsBodies and SnapQuoteOutcomes.
SnapshotHoldings ==
    {h.holdings :
        h \in {f \in UNION {{_fetch_holdings_quotes(CryptoAPITrading_init(Null, Null, e),
                                                     1700000000, net, e.CMC_API_KEY, quotes) :
                                 quotes \in [1..NumResults(net) -> SnapQuoteOutcomes]} :
                             e \in SnapEnvs, net \in NetOutcomes(HoldingsBodies)} :
                  f.raised = ""}}

\* The logs handed to check_dillution: snapshot files read back by
\* pull_log_data, and hand-written logs of up to MaxRows rows.
LogHoldings == SnapshotHoldings \cup SeqsUpTo(QuoteRows, MaxRows)

Checked(r) == dilution' = [dilution EXCEPT !.ran = TRUE, !.raised = r.raised, !.ret = r.ret]

\* check_dillution(log_data) on the log loaded.
CheckDillution ==
    /\ dilution.loaded
    /\ ~dilution.ran
    /\ Checked(check_dillution(dilution.holdings))
    /\ UNCHANGED <<env, clientVars, cmc, snapVars, display, signing>>

----------------------------------------------------------------------------
(* Specifications *)

\* One invocation at a time: a call starts only when no other is under way.
SequentialCall(p, overwrite) ==
    /\ \A q \in DOMAIN proc : proc[q].pc # "fetching"
    /\ Call(p, overwrite)

\* everything but the environment and the client at rest
Rest ==
    /\ lastRequest = NoRequest
    /\ lastSigned = NoSigned
    /\ lastCall = NoCall
    /\ cmc = CmcIdle
    /\ clock = 1
    /\ files = [f \in Paths |-> NoFile]
    /\ dirs = {}
    /\ proc = [p \in {1} |-> ProcIdle]
    /\ display = DisplayIdle
    /\ dilution = DilutionIdle
    /\ signing = SigningIdle

\* The snapshot writer, one invocation at a time (main flow of logger.py).
Init ==
    /\ env \in SnapEnvs
    /\ client = CryptoAPITrading_init(Null, Null, env)
    /\ Rest

Next ==
    \/ \E p \in DOMAIN proc, overwrite \in BOOLEAN : SequentialCall(p, overwrite)
    \/ \E p \in DOMAIN proc : FetchAndWrite(p)
    \/ Tick

Spec == Init /\ [][Next]_vars

\* The brokerage client: construction, then operations one after another.
InitClient ==
    /\ env \in ClientEnvs
    /\ client = NoClient
    /\ Rest

NextClient ==
    \/ \E api_key \in ArgKeys, base64_private_key \in ArgPrivKeys :
          Construct(api_key, base64_private_key)
    \/ get_account
    \/ get_best_bid_ask
    \/ get_estimated_price
    \/ get_trading_pairs
    \/ get_holdings
    \/ get_orders
    \/ get_order
    \/ cancel_order
    \/ place_order
    \/ Return

SpecClient == InitClient /\ [][NextClient]_vars

\* The quote-vendor lookups.
InitCmc ==
    /\ env \in [API_KEY : {Null}, ROBINHOOD_API_KEY : {Null}, BASE64_PRIVATE_KEY : {Null},
                ROBINHOOD_BASE64_PRIVATE_KEY : {Null}, CMC_API_KEY : CmcKeys]
    /\ client = NoClient
    /\ Rest

NextCmc ==
    \/ CallLatestQuote
    \/ CallTopListings
    \/ CallHistoricalOhlcv
    \/ OhlcvAttempt

SpecCmc == InitCmc /\ [][NextCmc]_vars

\* The portfolio display.
InitDisplay ==
    /\ env \in DisplayEnvs
    /\ client = CryptoAPITrading_init(Null, Null, env)
    /\ Rest

NextDisplay == Display

SpecDisplay == InitDisplay /\ [][NextDisplay]_vars

\* The dilution analysis.
InitDilution ==
    /\ env \in SnapEnvs
    /\ client = NoClient
    /\ lastRequest = NoRequest
    /\ lastSigned = NoSigned
    /\ lastCall = NoCall
    /\ cmc = CmcIdle
    /\ clock = 1
    /\ files = [f \in Paths |-> NoFile]
    /\ dirs = {}
    /\ proc = [p \in {1} |-> ProcIdle]
    /\ display = DisplayIdle
    /\ signing = SigningIdle
    /\ \E holdings \in LogHoldings :
          dilution = [DilutionIdle EXCEPT !.loaded = TRUE, !.holdings = holdings]

NextDilution == CheckDillution

SpecDilution == InitDilution /\ [][NextDilution]_vars

\* Two invocations of write_daily_snapshot running at once (two processes or
\* threads of the same user), each called once; their steps interleave.
FirstCall(p, overwrite) ==
    /\ proc[p].pc = "idle"
    /\ Call(p, overwrite)

InitRace ==
    /\ env \in {e \in SnapEnvs : Truthy(e.API_KEY) /\ Truthy(e.CMC_API_KEY)}
    /\ client = CryptoAPITrading_init(Null, Null, env)
    /\ lastRequest = NoRequest
    /\ lastSigned = NoSigned
    /\ lastCall = NoCall
    /\ cmc = CmcIdle
    /\ clock = 1
    /\ files = [f \in Paths |-> NoFile]
    /\ dirs = {}
    /\ proc = [p \in {1, 2} |-> ProcIdle]
    /\ display = DisplayIdle
    /\ dilution = DilutionIdle
    /\ signing = SigningIdle

NextRace ==
    \/ \E p \in DOMAIN proc, overwrite \in BOOLEAN : FirstCall(p, overwrite)
    \/ \E p \in DOMAIN proc : FetchAndWrite(p)

SpecRace == InitRace /\ [][NextRace]_vars

\* The signer called twice.
InitSign ==
    /\ env \in ClientEnvs
    /\ client = NoClient
    /\ Rest

NextSign == SignCall

SpecSign == InitSign /\ [][NextSign]_vars

----------------------------------------------------------------------------
(* Properties *)

\* C1: a second call of write_daily_snapshot on the same UTC date with
\* overwrite=False returns at once and leaves every snapshot file as it was,
\* whatever the brokerage and the vendor would have answered.
C1_SecondCallLeavesFile ==
    [][\A p \in DOMAIN proc :
          (/\ proc[p].pc = "returned"
           /\ proc'[p] # proc[p]
           /\ ~proc'[p].overwrite
           /\ proc'[p].file_path = proc[p].file_path)
          => (proc'[p].pc = "returned" /\ ~proc'[p].wrote /\ files' = files)]_vars

\* a second call with overwrite=False has found the file and returned
C1_Witness ==
    \E p \in DOMAIN proc :
        /\ proc[p].pc = "returned" /\ ~proc[p].overwrite /\ proc[p].existed
        /\ files[proc[p].file_path].content.holdings # <<>>

\* the document write_daily_snapshot builds from what invocation p fetched
DocumentFetched(p) ==
    Payload(Calendar[proc[p].now],
            _fetch_holdings_quotes(client, proc[p].inputs.ts, proc[p].inputs.net, env.CMC_API_KEY,
                                   proc[p].inputs.quotes).holdings,
            _fetch_holdings_quotes(client, proc[p].inputs.ts, proc[p].inputs.net, env.CMC_API_KEY,
                                   proc[p].inputs.quotes).total_value,
            _fetch_top_coins(proc[p].inputs.top_limit, env.CMC_API_KEY, proc[p].inputs.top))

\* C2: when the file of the date exists and overwrite=True, the call fetches
\* and the file then holds the document built from what that call fetched.
C2_OverwriteReplaces ==
    \A p \in DOMAIN proc :
        (proc[p].pc = "returned" /\ proc[p].overwrite /\ proc[p].existed)
        => /\ proc[p].fetched
           /\ proc[p].wrote
           /\ files[proc[p].file_path] = File(DocumentFetched(p), p)

\* an overwriting call has replaced a file whose holdings were different
C2_Witness ==
    \E p \in DOMAIN proc :
        /\ proc[p].pc = "returned" /\ proc[p].overwrite /\ proc[p].existed
        /\ proc[p].before.content.holdings # files[proc[p].file_path].content.holdings

\* C3: a client built without an API key or private key exists, and every
\* operation on it raises before any signature is computed and before any
\* HTTP request is sent.
C3_MissingCredentialsRaise ==
    (client.constructed /\ CredsMissing(client) /\ lastCall.op # "")
    => /\ lastCall.raised = "RuntimeError"
       /\ ~lastCall.signed
       /\ ~lastCall.dispatched
       /\ lastSigned = NoSigned
       /\ lastRequest = NoRequest

\* place_order was called on a client without credentials
C3_Witness ==
    /\ client.constructed /\ CredsMissing(client)
    /\ lastCall.op = "place_order" /\ lastCall.raised # ""

\* C4: when the transport fails under a dispatched request, the operation
\* returns {type: "client_error", errors: [{attr: null, detail: <message>}]}
\* and raises nothing.
C4_TransportFailureIsData ==
    (lastCall.dispatched /\ lastCall.net \in NetFailures)
    => /\ lastCall.raised = ""
       /\ lastCall.ret.type = "client_error"
       /\ ~lastCall.ret.has_results
       /\ Len(lastCall.ret.errors) = 1
       /\ lastCall.ret.errors[1].attr = Null
       /\ lastCall.ret.errors[1].detail = "Request error: " \o NetMessage(lastCall.net)

\* cancel_order (a POST) ran into a timeout
C4_Witness ==
    /\ Truthy(client.api_key) /\ Truthy(client.base64_private_key)
    /\ lastCall.op = "cancel_order" /\ lastCall.net = "Timeout"

\* the lookups of the running get_historical_ohlcv that failed, among the first n
AllFailed(n) == \A i \in 1..n : cmc.outcomes[i].kind # "ok"

\* C5: in get_historical_ohlcv, when the first k lookups fail (k in 0..2) and
\* lookup k+1 succeeds, the function returns that result after exactly k
\* sleeps, of 1 s and then 3 s.
C5_RetryThenSuccess ==
    LET n == Len(cmc.outcomes)
    IN  (/\ cmc.fn = "get_historical_ohlcv"
         /\ n \in 1..3
         /\ AllFailed(n - 1)
         /\ cmc.outcomes[n].kind = "ok")
        => /\ cmc.pc = "done"
           /\ cmc.raised = ""
           /\ cmc.ret = cmc.outcomes[n].data
           /\ cmc.lookups = n
           /\ Len(cmc.sleeps) = n - 1
           /\ \A i \in 1..(n - 1) : cmc.sleeps[i] = 1 + 2 * (i - 1)

\* two failures, then the third lookup succeeded
C5_Witness ==
    /\ cmc.fn = "get_historical_ohlcv" /\ cmc.pc = "done"
    /\ Len(cmc.outcomes) = 3 /\ cmc.outcomes[3].kind = "ok"
    /\ cmc.outcomes[1].kind = "transport" /\ cmc.outcomes[2].kind = "vendor_error"

\* C6: get_historical_ohlcv makes at most 3 lookups and sleeps at most twice;
\* while it runs another attempt is possible, and when all three lookups fail
\* the third failure is raised as a CoinMarketCapError with no sleep after it.
C6_BoundedRetry ==
    (cmc.fn = "get_historical_ohlcv")
    => /\ cmc.lookups <= 3
       /\ Len(cmc.sleeps) <= 2
       /\ Len(cmc.outcomes) = cmc.lookups
       /\ (cmc.pc = "loop" => cmc.lookups < 3 /\ ENABLED OhlcvAttempt)
       /\ (cmc.lookups = 3 /\ AllFailed(3))
          => /\ cmc.pc = "done"
             /\ cmc.raised = "CoinMarketCapError"
             /\ cmc.message = cmc.outcomes[3].message
             /\ Len(cmc.sleeps) = 2

\* all three lookups failed
C6_Witness ==
    /\ cmc.fn = "get_historical_ohlcv" /\ cmc.pc = "done"
    /\ cmc.lookups = 3 /\ AllFailed(3)

\* C7: get_latest_quote and get_top_listings make one lookup and never
\* sleep; when the key is missing, the transport fails or the vendor reports
\* an error, a CoinMarketCapError is raised to the caller.
C7_SingleAttempt ==
    (cmc.fn \in {"get_latest_quote", "get_top_listings"})
    => /\ cmc.pc = "done"
       /\ cmc.lookups = 1
       /\ Len(cmc.outcomes) = 1
       /\ cmc.requests <= 1
       /\ cmc.sleeps = <<>>
       /\ (cmc.outcomes[1].kind \in {"no_key", "transport", "vendor_error"}
              => cmc.raised = "CoinMarketCapError")
       /\ (cmc.outcomes[1].kind = "ok" => cmc.raised = "" /\ cmc.ret = cmc.outcomes[1].data)
       /\ (cmc.outcomes[1].kind = "no_key" => cmc.requests = 0)

\* get_top_listings met a vendor-reported error
C7_Witness ==
    /\ cmc.fn = "get_top_listings"
    /\ cmc.outcomes[1].kind = "vendor_error"
    /\ cmc.raised = "CoinMarketCapError"

\* some holding has non-null, non-zero market_cap and fully_diluted_market_cap
\* with fully_diluted_market_cap / market_cap > 1.5
SomeDiluted(holdings) ==
    \E i \in 1..Len(holdings) :
        /\ holdings[i].has_quote /\ ~holdings[i].quote_is_null
        /\ TruthyNum(holdings[i].usd_quote.market_cap)
        /\ TruthyNum(holdings[i].usd_quote.fully_diluted_market_cap)
        /\ 2 * holdings[i].usd_quote.fully_diluted_market_cap
              > 3 * holdings[i].usd_quote.market_cap

\* C8: check_dillution returns True exactly when some holding has non-null,
\* non-zero market_cap and fully_diluted_market_cap with ratio above 1.5.
C8_FlagsExactlyDiluted ==
    dilution.ran => (dilution.raised = "" /\ dilution.ret = SomeDiluted(dilution.holdings))

\* C9: check_dillution never raises: a row whose market caps are unavailable
\* (null, zero or absent, as in the rows write_daily_snapshot writes with
\* usd_quote null or with only an error field) is no signal.
C9_NeverRaises ==
    dilution.ran => dilution.raised = ""

\* credentials of the brokerage are present
CredsPresent(c) == Truthy(c.api_key) /\ Truthy(c.base64_private_key)

\* C10: with brokerage credentials and no CMC_API_KEY, display_portfolio
\* completes without raising and sends nothing to the quote vendor, whatever
\* came back for the holdings request.
C10_DisplayWithoutVendorKey ==
    (/\ display.ran
     /\ CredsPresent(client)
     /\ ~Truthy(env.CMC_API_KEY)
     /\ display.brokerage_requested)
    => /\ display.raised = ""
       /\ display.vendor_requests = 0
       /\ display.vendor_lookups = 0

\* the brokerage returned two holdings and no vendor key is set
C10_Witness ==
    /\ display.ran /\ CredsPresent(client) /\ ~Truthy(env.CMC_API_KEY)
    /\ display.brokerage_requested /\ NumResults(display.net) = 2

\* C11: every dispatched request carries x-api-key, x-signature, x-timestamp
\* and content-type application/json; charset=utf-8, and x-timestamp is the
\* decimal rendering of the timestamp in the signed message of that request.
C11_SignedHeadersOnEveryRequest ==
    lastCall.dispatched
    => /\ lastRequest # NoRequest
       /\ lastCall.signed
       /\ lastRequest.headers.x_api_key = client.api_key
       /\ lastRequest.headers.x_api_key = lastSigned.api_key
       /\ lastRequest.headers.x_signature # ""
       /\ lastRequest.headers.x_timestamp = ToString(lastSigned.timestamp)
       /\ lastRequest.headers.content_type = "application/json; charset=utf-8"

\* place_order went out at the later of the two clock readings
C11_Witness ==
    /\ lastCall.op = "place_order" /\ lastCall.dispatched
    /\ lastSigned.timestamp = 1700000009
    /\ lastRequest.headers.x_timestamp = "1700000009"

\* C12: the path under the signature, query string included, is the string
\* appended to base_url in the dispatched URL, and the method under the
\* signature is the method dispatched.
C12_SignedPathIsDispatchedPath ==
    lastCall.dispatched
    => /\ lastRequest.url = client.base_url \o lastSigned.path
       /\ lastSigned.path = lastCall.path
       /\ lastRequest.method = lastSigned.method
       /\ lastSigned.method = lastCall.method
       /\ lastRequest.headers.x_signature =
             generate_signature_base64(lastSigned.api_key, client.base64_private_key,
                                       lastSigned.timestamp, lastSigned.path,
                                       lastSigned.method, lastSigned.body).signature

\* get_holdings went out with a query string of four parameters
C12_Witness ==
    /\ lastCall.op = "get_holdings" /\ lastCall.dispatched
    /\ lastSigned.path = "/api/v1/crypto/trading/holdings/?asset_code=BTC&asset_code=ETH&limit=5&cursor=c1"
    /\ lastRequest.url = "https://trading.robinhood.com/api/v1/crypto/trading/holdings/?asset_code=BTC&asset_code=ETH&limit=5&cursor=c1"

\* the strings of a dispatched request: its headers, URL, method and body fields
Transmitted(r) ==
    {r.headers.x_api_key, r.headers.x_signature, r.headers.x_timestamp,
     r.headers.content_type, r.url, r.method,
     r.json.client_order_id, r.json.side, r.json.type, r.json.symbol, r.json.order_config}

\* C13: no header, URL or body field of a dispatched request holds the
\* private key; what is sent is the api key, the timestamp, the signature,
\* the operation's method and path, and its body.
C13_PrivateKeyStaysHome ==
    lastCall.dispatched
    => /\ client.base64_private_key \notin Transmitted(lastRequest)
       /\ lastRequest.headers.x_api_key = client.api_key
       /\ lastRequest.headers.x_timestamp = ToString(lastSigned.timestamp)
       /\ lastRequest.headers.x_signature =
             Sign(DecodeSeed(client.base64_private_key),
                  SignedMessage(lastSigned.api_key, lastSigned.timestamp, lastSigned.path,
                                lastSigned.method, lastSigned.body)).signature
       /\ lastRequest.url = DEFAULT_BASE_URL \o lastCall.path
       /\ lastRequest.method = lastCall.method
       /\ (lastCall.op # "place_order" => lastRequest.json = NoBody)
       /\ (lastCall.op = "place_order" => lastRequest.json \in OrderBodies)

\* get_order is on the wire, signed with a decodable private key
C13_Witness ==
    /\ lastCall.op = "get_order" /\ lastCall.dispatched
    /\ client.base64_private_key = GoodKey
    /\ lastRequest.headers.x_signature # ""

\* the two calls were given the same api_key and private key
SameKeys ==
    /\ signing.first.api_key = signing.second.api_key
    /\ signing.first.base64_private_key = signing.second.base64_private_key

\* the fields among timestamp, path, method and body in which the two calls differ
Differing ==
    {f \in {"timestamp", "path", "method", "body"} : signing.first[f] # signing.second[f]}

\* C14: for a fixed api_key and private key, identical (timestamp, path,
\* method, body) give the identical signature, and inputs that differ in
\* exactly one of the four give different signed messages and signatures.
C14_SignatureFunctionOfInputs ==
    (signing.second.done /\ SameKeys)
    => /\ (Differing = {}
             => /\ signing.first.signature = signing.second.signature
                /\ signing.first.raised = signing.second.raised)
       /\ (Cardinality(Differing) = 1 /\ signing.first.raised = ""
             => /\ signing.second.raised = ""
                /\ SignedMessage(signing.first.api_key, signing.first.timestamp,
                                 signing.first.path, signing.first.method, signing.first.body)
                   # SignedMessage(signing.second.api_key, signing.second.timestamp,
                                   signing.second.path, signing.second.method,
                                   signing.second.body)
                /\ signing.first.signature # signing.second.signature)

\* two signatures under one key whose inputs differ in the method alone
C14_Witness ==
    /\ signing.second.done /\ SameKeys
    /\ signing.first.raised = "" /\ signing.first.signature # ""
    /\ Differing = {"method"}

\* the holdings the brokerage returned to invocation p
Returned(p) ==
    IF proc[p].inputs.net.kind = "response" /\ proc[p].inputs.net.body.has_results
    THEN proc[p].inputs.net.body.results ELSE <<>>

\* the quote of holding i of invocation p failed: the lookup raised (no key,
\* transport failure, vendor-reported error) or its price does not parse
BadQuote(p, i) ==
    \/ ~Truthy(env.CMC_API_KEY)
    \/ proc[p].inputs.quotes[i].kind # "ok"
    \/ /\ proc[p].inputs.quotes[i].data.symbol = Upper(Or(Returned(p)[i].asset_code, ""))
       /\ proc[p].inputs.quotes[i].data.has_usd
       /\ proc[p].inputs.quotes[i].data.usd.price = BadNum

\* the sum of value_usd over the rows that carry a quote
RECURSIVE QuotedTotal(_)
QuotedTotal(rows) ==
    IF Len(rows) = 0 THEN 0
    ELSE (IF Head(rows).has_quote /\ ~Head(rows).quote_is_null THEN Head(rows).value_usd ELSE 0)
         + QuotedTotal(Tail(rows))

\* C15: in the snapshot enrichment a vendor or parsing error on one asset's
\* quote does not abort the report: there is one row per holding returned,
\* in the brokerage's order, the failing asset's row carries an error field
\* and adds nothing to the total, and every asset is looked up.
C15_OneBadQuoteDoesNotAbort ==
    \A p \in DOMAIN proc :
        (proc[p].fetched /\ proc[p].brokerage_requested /\ Len(Returned(p)) > 0)
        => /\ proc[p].pc = "returned"
           /\ proc[p].wrote
           /\ proc[p].vendor_lookups = Len(Returned(p)) + 1
           /\ LET rows == files[proc[p].file_path].content.holdings
              IN  /\ Len(rows) = Len(Returned(p))
                  /\ \A i \in 1..Len(rows) :
                        /\ rows[i].symbol = Upper(Or(Returned(p)[i].asset_code, ""))
                        /\ BadQuote(p, i) => rows[i].has_error /\ ~rows[i].has_quote
                  /\ files[proc[p].file_path].content.summary.portfolio_value_usd
                        = QuotedTotal(rows)

\* C16: when the API key or the private key is absent, write_daily_snapshot
\* hands the configuration error to its caller: it does not go on to write a
\* snapshot with a silent default such as an empty holdings list.
C16_MissingCredentialsAreFatal ==
    \A p \in DOMAIN proc :
        (proc[p].fetched /\ CredsMissing(client))
        => /\ proc[p].pc = "raised"
           /\ proc[p].raised = "RuntimeError"
           /\ ~proc[p].wrote

\* C17: write_daily_snapshot takes no lock: an invocation that passed the
\* existence check writes its whole document whatever another invocation
\* has written meanwhile, so two concurrent invocations with overwrite=False
\* can both write the file of one date, and the file holds the document of
\* the invocation that wrote last.
C17_LaterWriteWins ==
    /\ [](\A f \in Paths :
            (files[f].exists /\ proc[files[f].by].wrote /\ proc[files[f].by].file_path = f)
            => files[f].content = DocumentFetched(files[f].by))
    /\ [][\A p \in DOMAIN proc :
            (proc[p].pc = "fetching" /\ proc'[p].pc = "returned")
            => /\ proc'[p].wrote
               /\ files'[proc[p].file_path].exists
               /\ files'[proc[p].file_path].by = p]_vars

\* both invocations found no file, neither was told to overwrite, both wrote
\* the file of the same date, and what remains is the document of the second
\* invocation, which differs from what the first fetched
C17_Witness ==
    /\ \A p \in {1, 2} :
          /\ proc[p].pc = "returned" /\ proc[p].wrote
          /\ ~proc[p].existed /\ ~proc[p].overwrite
    /\ proc[1].file_path = proc[2].file_path
    /\ files[proc[2].file_path] = File(DocumentFetched(2), 2)
    /\ DocumentFetched(1).holdings # DocumentFetched(2).holdings

\* the arguments that are neither None nor empty, in argument order
Kept(positional) == SelectSeq(positional, LAMBDA a : a # Null /\ a # "")

\* one key=<value> entry per kept argument, then limit, then cursor
Entries(key, args) ==
    [i \in 1..Len(Kept(args[1])) |-> key \o "=" \o Kept(args[1])[i]]
    \o (IF args[2] # NoneNum THEN <<"limit=" \o ToString(args[2])>> ELSE <<>>)
    \o (IF args[3] # Null THEN <<"cursor=" \o args[3]>> ELSE <<>>)

\* base, then nothing when no entry remains, else "?" and the entries joined by "&"
WithQuery(base, entries) ==
    IF Len(entries) = 0 THEN base ELSE base \o "?" \o Join(entries, "&")

\* C18: get_holdings and get_trading_pairs build the query string in a
\* stable order: one asset_code= (resp. symbol=) entry per non-empty
\* positional argument in argument order, then limit, then cursor, joined by
\* "&" after one "?"; with no entry the path ends at the trailing "/".
C18_QueryStringOrder ==
    /\ lastCall.op = "get_holdings"
          => lastCall.path = WithQuery("/api/v1/crypto/trading/holdings/",
                                       Entries("asset_code", lastCall.args))
    /\ lastCall.op = "get_trading_pairs"
          => lastCall.path = WithQuery("/api/v1/crypto/trading/trading_pairs/",
                                       Entries("symbol", lastCall.args))

\* get_holdings("", "ETH", limit=5, cursor="c1"): the empty code is skipped
C18_Witness ==
    /\ lastCall.op = "get_holdings"
    /\ lastCall.args = Args(<<"", "ETH">>, 5, "c1")
    /\ lastCall.path = "/api/v1/crypto/trading/holdings/?asset_code=ETH&limit=5&cursor=c1"

\* logs/<year>/<month> of the instant an invocation read from the clock
MonthDirectory(now) == "logs/" \o Pad4(Calendar[now].year) \o "/" \o Pad2(Calendar[now].month)

\* C19: a call that finds the file of the date with overwrite=False returns
\* the existing path without a brokerage or vendor request and without
\* opening the file for writing; its only effect on the filesystem is that
\* logs/<year>/<month> exists.
C19_SkipHasNoEffect ==
    [][\A p \in DOMAIN proc :
          (/\ proc'[p] # proc[p]
           /\ proc'[p].pc = "returned"
           /\ proc'[p].existed
           /\ ~proc'[p].overwrite)
          => /\ proc[p].pc # "fetching"
             /\ proc'[p].file_path = MonthDirectory(clock) \o "/" \o Pad2(Calendar[clock].day) \o ".json"
             /\ ~proc'[p].fetched
             /\ ~proc'[p].wrote
             /\ ~proc'[p].brokerage_requested
             /\ proc'[p].vendor_lookups = 0
             /\ files' = files
             /\ dirs' = dirs \cup {MonthDirectory(clock)}
             /\ UNCHANGED <<env, clientVars, cmc, clock>>]_vars

\* a call on the second instant of 31 January, overwrite=False, has found
\* the file the first call wrote and returned its path; nothing was requested
C19_Witness ==
    \E p \in DOMAIN proc :
        /\ proc[p].pc = "returned" /\ ~proc[p].overwrite /\ proc[p].existed
        /\ proc[p].now = 2
        /\ proc[p].file_path = "logs/2025/01/31.json"
        /\ ~proc[p].brokerage_requested /\ proc[p].vendor_lookups = 0 /\ ~proc[p].wrote
        /\ files["logs/2025/01/31.json"] = proc[p].before
        /\ dirs = {"logs/2025/01"}
====
